---- MODULE Spec2Model ----
(***************************************************************************)
(* publish-registry.ts of types-publisher: main reads the additions, and   *)
(* when there are any it generates the types-registry package (manifest,   *)
(* index of dist-tags fetched with bounded concurrency, README) and        *)
(* publishes it.  Every awaited call of a collaborator is one step that    *)
(* either resolves or rejects; a rejection is never caught, so it rejects  *)
(* main.                                                                   *)
(***************************************************************************)
EXTENDS Integers, Sequences, FiniteSets, TLC

(* ------------------------------ bounds --------------------------------- *)
MaxTypings == 3
MaxLimit == 2
MaxPatch == 1
MaxTags == 3
MaxCatalog == 2

(* ----------------------------- constants ------------------------------- *)
packageName == "types-registry"
registryOutputPath == "output/" \o packageName
readme == "This package contains a listing of all packages published to the @types scope on NPM."
npmRegistry == "https://registry.npmjs.org/"
allVersionTags == <<"latest", "ts2.8">>
RegistryConcurrency == 25
Undefined == "undefined"

(* The limits the mapper is run with: the one generateRegistry passes and  *)
(* small ones, so that the limit binds on the short lists of the model.    *)
Limits == (1..MaxLimit) \cup {RegistryConcurrency}

(* ------------------------------- data ---------------------------------- *)
(* A typing has a name and a fullEscapedNpmName; two typings may have the  *)
(* same name and be looked up under different escaped names.               *)
Names == {"a", "b"}
TypingsData ==
    { [name |-> "a", fullEscapedNpmName |-> "a"],
      [name |-> "b", fullEscapedNpmName |-> "b__types"],
      [name |-> "a", fullEscapedNpmName |-> "b__types"] }

RECURSIVE SeqsUpTo(_, _)
SeqsUpTo(S, k) ==
    IF k = 0 THEN {<< >>}
    ELSE LET shorter == SeqsUpTo(S, k - 1)
         IN  shorter \cup {Append(s, x) : s \in {t \in shorter : Len(t) = k - 1}, x \in S}

TypingsLists == SeqsUpTo(TypingsData, MaxTypings)
Additions == {<< >>, <<"a">>}

(* A JSON object is the sequence of its <<key, value>> pairs in the order  *)
(* for-in enumerates them; no key occurs twice.                            *)
DistTagsObjects ==
    { << >>,
      << <<"latest", "1.0.0">>, <<"ts2.8", "0.9.0">>, <<"bogus", "x">> >>,
      << <<"bogus", "y">>, <<"latest", "2.0.0">> >> }
Uris == {npmRegistry \o t.fullEscapedNpmName : t \in TypingsData}
Registries == [Uris -> {("dist-tags" :> o) : o \in DistTagsObjects}]

Keys(obj) == {obj[i][1] : i \in 1..Len(obj)}
Get(obj, key) == obj[CHOOSE i \in 1..Len(obj) : obj[i][1] = key][2]
Includes(keys, key) == \E i \in 1..Len(keys) : keys[i] = key
SetKey(obj, key, value) ==
    IF key \in Keys(obj)
    THEN [i \in 1..Len(obj) |-> IF obj[i][1] = key THEN <<key, value>> ELSE obj[i]]
    ELSE Append(obj, <<key, value>>)

(* ---------------------------- pure functions --------------------------- *)
(* pick leaving its loop at the first key that is not among keys. *)
RECURSIVE pickFromUntilMiss(_, _, _, _)
pickFromUntilMiss(obj, keys, i, out) ==
    IF i > Len(obj) \/ ~Includes(keys, obj[i][1]) THEN out
    ELSE pickFromUntilMiss(obj, keys, i + 1, SetKey(out, obj[i][1], obj[i][2]))

RECURSIVE pickFrom(_, _, _, _)
pickFrom(obj, keys, i, out) ==
    IF i > Len(obj) THEN out
    ELSE pickFrom(obj, keys, i + 1,
                  IF Includes(keys, obj[i][1]) THEN SetKey(out, obj[i][1], obj[i][2]) ELSE out)

(* pick without the test of keys.includes: every key of obj is copied. *)
pickEveryKey(obj, keys) == obj

pick(obj, keys) == pickFrom(obj, keys, 1, << >>)

generatePackageJson(patch) ==
    [name |-> packageName,
     version |-> "0.1." \o ToString(patch),
     description |-> "A registry of TypeScript declaration file packages published within the @types scope.",
     repository |-> [type |-> "git", url |-> "https://github.com/Microsoft/types-publisher.git"],
     keywords |-> <<"TypeScript", "declaration", "files", "types", "packages">>,
     author |-> "Microsoft Corp.",
     license |-> "Apache-2.0"]

writeJson(dir, filename, content) ==
    [f \in DOMAIN dir \cup {filename} |-> IF f = filename THEN [json |-> content] ELSE dir[f]]

EmptyDir == [f \in {} |-> [json |-> Undefined]]
EmptyEntries == [k \in {} |-> << >>]
(* entries[key] ||= value: an entry that exists is kept. *)
SetEntryOnce(e, key, value) ==
    [k \in DOMAIN e \cup {key} |-> IF k = key /\ key \notin DOMAIN e THEN value ELSE e[k]]
SetEntry(e, key, value) == [k \in DOMAIN e \cup {key} |-> IF k = key THEN value ELSE e[k]]
PreviousOutput ==
    writeJson(writeJson(writeJson(EmptyDir,
        "package.json", generatePackageJson(0)),
        "index.json", [entries |-> EmptyEntries]),
        "README.md", readme)

Min(a, b) == IF a < b THEN a ELSE b

(* ------------------------------- state --------------------------------- *)
VARIABLES
    dry,            \* main's argument
    n,              \* the concurrency limit the mapper is called with
    registry,       \* what the npm registry answers for each uri
    outputDir,      \* the files under registryOutputPath
    logFiles,       \* the logs written to publish-registry.md, oldest first
    pc,             \* the await main is suspended at
    added,          \* readAdditions' result
    typings,        \* readTypings' result
    last,           \* fetchLastPatchNumber's result, -1 before it
    packageJson,    \* the manifest generateAndPublishRegistry holds
    log,            \* the lines logged so far
    failedAt,       \* the call whose rejection rejected main, "none" otherwise
    entries,        \* generateRegistry's entries
    inputs,         \* the mapper's input collection
    nextIndex,      \* the mapper's shared cursor (0-based, as many items are claimed)
    results,        \* the mapper's output collection
    wstate,         \* per worker: "awaiting", "hung", "finished" or "rejected"
    windex,         \* per worker: the (1-based) index it claimed last, 0 before
    status,         \* the mapper's promise: "idle", "running", "resolved", "rejected"
    invoked,        \* per index: how often the transform was invoked for it
    progress,       \* how many progress lines were rendered
    fetches,        \* the uris fetchJson was called with, in call order
    failedFetches,  \* how many fetchJson calls rejected
    cleared,        \* how often the output path was cleared
    writes,         \* the file names written under registryOutputPath, in order
    clientCreated,  \* how often NpmClient.create resolved
    publishCalls,   \* the arguments of every client.publish call
    npmPublished,   \* what was really published: manifest and directory content
    pickObj,        \* pick called on its own: the object,
    pickKeys,       \* the keys,
    pickOut         \* and what it returned

pickVars == <<pickObj, pickKeys, pickOut>>
envVars == <<dry, n, registry, pickVars>>
mainVars == <<pc, added, typings, last, packageJson, log, failedAt>>
fsVars == <<outputDir, logFiles, cleared, writes>>
mapVars == <<inputs, nextIndex, results, wstate, windex, status, invoked, progress>>
npmVars == <<clientCreated, publishCalls, npmPublished>>
netVars == <<fetches, failedFetches>>
vars == <<envVars, mainVars, fsVars, entries, mapVars, netVars, npmVars>>

Hole == "hole"
NoPackageJson == [name |-> "none"]
Workers == DOMAIN wstate
InFlight == Cardinality({w \in Workers : wstate[w] = "awaiting"})

InitCommon ==
    /\ n \in Limits
    /\ logFiles = << >>
    /\ added = << >>
    /\ typings = << >>
    /\ last = -1
    /\ packageJson = NoPackageJson
    /\ log = << >>
    /\ failedAt = "none"
    /\ entries = EmptyEntries
    /\ inputs = << >>
    /\ nextIndex = 0
    /\ results = << >>
    /\ wstate = << >>
    /\ windex = << >>
    /\ status = "idle"
    /\ invoked = << >>
    /\ progress = 0
    /\ fetches = << >>
    /\ failedFetches = 0
    /\ cleared = 0
    /\ writes = << >>
    /\ clientCreated = 0
    /\ publishCalls = << >>
    /\ npmPublished = << >>

NoPick ==
    /\ pickObj = << >>
    /\ pickKeys = << >>
    /\ pickOut = << >>

Init ==
    /\ NoPick
    /\ dry \in BOOLEAN
    /\ registry \in Registries
    /\ outputDir = PreviousOutput
    /\ pc = "readAdditions"
    /\ InitCommon

(* --------------------- the bounded mapper, nAtATime -------------------- *)
(* The workers are cooperative tasks on one execution context: a worker    *)
(* runs without interruption from one await of the transform to the next.  *)
Launched(L, in) == Min(L, Len(in))

(* nAtATime(L, in, use, progress) launches min(L, M) workers; each claims  *)
(* the next index of the shared cursor, renders the progress line and      *)
(* invokes the transform, on whose result it is then suspended.            *)
NAtATime(L, in) ==
    /\ inputs' = in
    /\ nextIndex' = Launched(L, in)
    /\ results' = [i \in 1..Len(in) |-> Hole]
    /\ wstate' = [w \in 1..Launched(L, in) |-> "awaiting"]
    /\ windex' = [w \in 1..Launched(L, in) |-> w]
    /\ status' = "running"
    /\ invoked' = [i \in 1..Len(in) |-> IF i <= Launched(L, in) THEN 1 ELSE 0]
    /\ progress' = Launched(L, in)

(* The cursor's value taken for the index itself: the item claimed last is *)
(* claimed again.                                                          *)
ClaimedIndexOffByOne == nextIndex

(* The (1-based) index a claim takes: the first one not yet claimed. *)
ClaimedIndex == nextIndex + 1

(* Results put behind those stored so far, in completion order. *)
StoreIndexInCompletionOrder(w) == Cardinality({i \in DOMAIN results : results[i] # Hole}) + 1

(* Where worker w stores the result it awaited: at the index it claimed. *)
StoreIndex(w) == windex[w]

(* The workers taken in batches, as with Promise.all over each batch of L: *)
(* nobody goes on to a next item while a call of the batch is hung.        *)
WorkerContinueInBatches(w, output) ==
    /\ wstate[w] = "awaiting"
    /\ \A v \in DOMAIN wstate : wstate[v] # "hung"
    /\ results' = [results EXCEPT ![windex[w]] = output]
    /\ IF nextIndex # Len(inputs)
       THEN /\ windex' = [windex EXCEPT ![w] = nextIndex + 1]
            /\ invoked' = [invoked EXCEPT ![nextIndex + 1] = @ + 1]
            /\ nextIndex' = nextIndex + 1
            /\ progress' = progress + 1
            /\ UNCHANGED wstate
       ELSE /\ wstate' = [wstate EXCEPT ![w] = "finished"]
            /\ UNCHANGED <<windex, invoked, nextIndex, progress>>
    /\ UNCHANGED <<inputs, status>>

(* The transform resolved with output: the worker stores it, then claims   *)
(* the next index and invokes the transform on it, or ends when the cursor *)
(* is exhausted.                                                           *)
WorkerContinue(w, output) ==
    /\ wstate[w] = "awaiting"
    /\ results' = [results EXCEPT ![StoreIndex(w)] = output]
    /\ IF nextIndex # Len(inputs)
       THEN /\ windex' = [windex EXCEPT ![w] = ClaimedIndex]
            /\ invoked' = [invoked EXCEPT ![ClaimedIndex] = @ + 1]
            /\ nextIndex' = nextIndex + 1
            /\ progress' = progress + 1
            /\ UNCHANGED wstate
       ELSE /\ wstate' = [wstate EXCEPT ![w] = "finished"]
            /\ UNCHANGED <<windex, invoked, nextIndex, progress>>
    /\ UNCHANGED <<inputs, status>>

(* The transform rejected: the worker ends, and the mapper rejects unless  *)
(* it was rejected before.  The other workers are not cancelled.           *)
WorkerReject(w) ==
    /\ wstate[w] = "awaiting"
    /\ wstate' = [wstate EXCEPT ![w] = "rejected"]
    /\ status' = IF status = "running" THEN "rejected" ELSE status
    /\ UNCHANGED <<inputs, nextIndex, results, windex, invoked, progress>>

(* The transform call of worker w never completes: no timeout or          *)
(* cancellation ends it, the worker stays suspended on it.                 *)
WorkerHang(w) ==
    /\ wstate[w] = "awaiting"
    /\ wstate' = [wstate EXCEPT ![w] = "hung"]
    /\ UNCHANGED <<inputs, nextIndex, results, windex, status, invoked, progress>>

(* The mapper resolving with the first worker that ends, as Promise.race   *)
(* over the workers would.                                                 *)
MapperResolveAtFirstEnd ==
    /\ status = "running"
    /\ \E w \in Workers : wstate[w] = "finished"
    /\ status' = "resolved"
    /\ UNCHANGED <<inputs, nextIndex, results, wstate, windex, invoked, progress>>

(* Every launched worker has ended normally: the mapper resolves.          *)
MapperResolve ==
    /\ status = "running"
    /\ \A w \in Workers : wstate[w] = "finished"
    /\ status' = "resolved"
    /\ UNCHANGED <<inputs, nextIndex, results, wstate, windex, invoked, progress>>

(* --------------------------------- main -------------------------------- *)
(* main writing the log in a finally block: a rejected call is followed by *)
(* the logging step.                                                       *)
RejectsThenLogs(step) ==
    /\ pc' = IF step = "writeLog" THEN "rejected" ELSE "writeLog"
    /\ failedAt' = step

Rejects(step) ==
    /\ pc' = "rejected"
    /\ failedAt' = step

(* main testing the array itself, which is truthy also when empty, in     *)
(* place of its length.                                                    *)
MainReadAdditionsTruthy ==
    /\ pc = "readAdditions"
    /\ \/ \E a \in Additions :
            /\ added' = a
            /\ log' = <<"=== Publishing types-registry ===", "New packages have been added">>
            /\ pc' = "readTypings"
            /\ UNCHANGED failedAt
       \/ /\ Rejects("readAdditions")
          /\ log' = <<"=== Publishing types-registry ===">>
          /\ UNCHANGED added
    /\ UNCHANGED <<envVars, typings, last, packageJson, fsVars, entries, mapVars, netVars, npmVars>>

MainReadAdditions ==
    /\ pc = "readAdditions"
    /\ \/ \E a \in Additions :
            /\ added' = a
            /\ IF Len(a) # 0
               THEN /\ log' = <<"=== Publishing types-registry ===", "New packages have been added">>
                    /\ pc' = "readTypings"
               ELSE /\ log' = <<"=== Publishing types-registry ===", "No new packages published">>
                    /\ pc' = "writeLog"
            /\ UNCHANGED failedAt
       \/ /\ Rejects("readAdditions")
          /\ log' = <<"=== Publishing types-registry ===">>
          /\ UNCHANGED added
    /\ UNCHANGED <<envVars, typings, last, packageJson, fsVars, entries, mapVars, netVars, npmVars>>

(* generateAndPublishRegistry clearing the output path first, before the   *)
(* typings are read.                                                       *)
ReadTypingsAfterClearing ==
    /\ pc = "readTypings"
    /\ outputDir' = EmptyDir
    /\ cleared' = cleared + 1
    /\ \/ /\ typings' \in TypingsLists
          /\ pc' = "fetchLastPatchNumber"
          /\ UNCHANGED failedAt
       \/ /\ Rejects("readTypings")
          /\ UNCHANGED typings
    /\ UNCHANGED <<envVars, added, last, packageJson, log, logFiles, writes, entries, mapVars,
                   netVars, npmVars>>

ReadTypings ==
    /\ pc = "readTypings"
    /\ \/ /\ typings' \in TypingsLists
          /\ pc' = "fetchLastPatchNumber"
          /\ UNCHANGED failedAt
       \/ /\ Rejects("readTypings")
          /\ UNCHANGED typings
    /\ UNCHANGED <<envVars, added, last, packageJson, log, fsVars, entries, mapVars, netVars, npmVars>>

(* generateAndPublishRegistry reusing the last patch number. *)
FetchLastPatchNumberReused ==
    /\ pc = "fetchLastPatchNumber"
    /\ \/ \E p \in 0..MaxPatch :
            /\ last' = p
            /\ packageJson' = generatePackageJson(p)
            /\ pc' = "clearOutputPath"
            /\ UNCHANGED failedAt
       \/ /\ Rejects("fetchLastPatchNumber")
          /\ UNCHANGED <<last, packageJson>>
    /\ UNCHANGED <<envVars, added, typings, log, fsVars, entries, mapVars, netVars, npmVars>>

FetchLastPatchNumber ==
    /\ pc = "fetchLastPatchNumber"
    /\ \/ \E p \in 0..MaxPatch :
            /\ last' = p
            /\ packageJson' = generatePackageJson(p + 1)
            /\ pc' = "clearOutputPath"
            /\ UNCHANGED failedAt
       \/ /\ Rejects("fetchLastPatchNumber")
          /\ UNCHANGED <<last, packageJson>>
    /\ UNCHANGED <<envVars, added, typings, log, fsVars, entries, mapVars, netVars, npmVars>>

(* generate going on without the output path having been cleared. *)
ClearOutputPathSkipped ==
    /\ pc = "clearOutputPath"
    /\ \/ /\ pc' = "writePackageJson"
          /\ UNCHANGED failedAt
       \/ Rejects("clearOutputPath")
    /\ UNCHANGED <<envVars, added, typings, last, packageJson, log, fsVars,
                   entries, mapVars, netVars, npmVars>>

ClearOutputPath ==
    /\ pc = "clearOutputPath"
    /\ \/ /\ outputDir' = EmptyDir
          /\ cleared' = cleared + 1
          /\ pc' = "writePackageJson"
          /\ UNCHANGED failedAt
       \/ /\ Rejects("clearOutputPath")
          /\ UNCHANGED <<outputDir, cleared>>
    /\ UNCHANGED <<envVars, added, typings, last, packageJson, log, logFiles, writes,
                   entries, mapVars, netVars, npmVars>>

(* generate going on to its next step when a write rejected. *)
writeOutputFileUnawaited(filename, content, next) ==
    /\ \/ /\ outputDir' = writeJson(outputDir, filename, content)
          /\ writes' = Append(writes, filename)
       \/ UNCHANGED <<outputDir, writes>>
    /\ pc' = next
    /\ UNCHANGED failedAt
    /\ UNCHANGED <<envVars, added, typings, last, packageJson, log, logFiles, cleared, netVars, npmVars>>

writeOutputFile(filename, content, next) ==
    /\ \/ /\ outputDir' = writeJson(outputDir, filename, content)
          /\ writes' = Append(writes, filename)
          /\ pc' = next
          /\ UNCHANGED failedAt
       \/ /\ Rejects(filename)
          /\ UNCHANGED <<outputDir, writes>>
    /\ UNCHANGED <<envVars, added, typings, last, packageJson, log, logFiles, cleared, netVars, npmVars>>

WritePackageJson ==
    /\ pc = "writePackageJson"
    /\ writeOutputFile("package.json", packageJson, "generateRegistry")
    /\ UNCHANGED <<entries, mapVars>>

getVersionsUri(escapedPackageName) == npmRegistry \o escapedPackageName

getVersions(info) == pick(info["dist-tags"], allVersionTags)

(* addEntry up to its await, for the first k typings: fetchJson is called. *)
FirstFetches(k) == [i \in 1..k |-> getVersionsUri(typings[i].fullEscapedNpmName)]

(* generateRegistry starting every fetch at once, as Promise.all over the  *)
(* typings would.                                                          *)
GenerateRegistryUnbounded ==
    /\ pc = "generateRegistry"
    /\ entries' = EmptyEntries
    /\ NAtATime(Len(typings), typings)
    /\ fetches' = FirstFetches(Len(typings))
    /\ pc' = "nAtATime"
    /\ UNCHANGED <<envVars, added, typings, last, packageJson, log, failedAt, fsVars,
                   failedFetches, npmVars>>

GenerateRegistry ==
    /\ pc = "generateRegistry"
    /\ entries' = EmptyEntries
    /\ NAtATime(n, typings)
    /\ fetches' = FirstFetches(Launched(n, typings))
    /\ pc' = "nAtATime"
    /\ UNCHANGED <<envVars, added, typings, last, packageJson, log, failedAt, fsVars,
                   failedFetches, npmVars>>

(* addEntry up to its await, for the item the worker claims next, if any.  *)
NextFetch ==
    IF nextIndex # Len(inputs)
    THEN Append(fetches, getVersionsUri(inputs[ClaimedIndex].fullEscapedNpmName))
    ELSE fetches

(* fetchJson resolved: the recognized tags go into entries under the name, *)
(* and the worker goes on with the next item.                              *)
AddEntryResolve(w) ==
    /\ WorkerContinue(w, Undefined)
    /\ LET typing == inputs[windex[w]]
           info == registry[getVersionsUri(typing.fullEscapedNpmName)]
       IN  entries' = SetEntry(entries, typing.name, getVersions(info))
    /\ fetches' = NextFetch
    /\ UNCHANGED <<envVars, mainVars, fsVars, failedFetches, npmVars>>

(* addEntry catching the rejection of fetchJson and leaving the entry out. *)
AddEntrySwallow(w) ==
    /\ WorkerContinue(w, Undefined)
    /\ fetches' = NextFetch
    /\ failedFetches' = failedFetches + 1
    /\ UNCHANGED <<envVars, mainVars, fsVars, entries, npmVars>>

(* fetchJson rejected: nAtATime rejects, and with it generateRegistry,     *)
(* generate, generateAndPublishRegistry and main.                          *)
AddEntryReject(w) ==
    /\ WorkerReject(w)
    /\ IF status = "running"
       THEN Rejects("generateRegistry")
       ELSE UNCHANGED <<pc, failedAt>>
    /\ failedFetches' = failedFetches + 1
    /\ UNCHANGED <<envVars, added, typings, last, packageJson, log, fsVars, entries, fetches, npmVars>>

(* generateRegistry returning the entries without the object around them. *)
GenerateRegistryBareEntries == entries

GenerateRegistryResult == [entries |-> entries]

GenerateRegistryReturn ==
    /\ pc = "nAtATime"
    /\ MapperResolve
    /\ pc' = "writeIndexJson"
    /\ UNCHANGED <<envVars, added, typings, last, packageJson, log, failedAt, fsVars, entries,
                   netVars, npmVars>>

WriteIndexJson ==
    /\ pc = "writeIndexJson"
    /\ writeOutputFile("index.json", GenerateRegistryResult, "writeReadme")
    /\ UNCHANGED <<entries, mapVars>>

WriteReadme ==
    /\ pc = "writeReadme"
    /\ writeOutputFile("README.md", readme, "createClient")
    /\ UNCHANGED <<entries, mapVars>>

NpmClientCreate ==
    /\ pc = "createClient"
    /\ \/ /\ clientCreated' = clientCreated + 1
          /\ pc' = "publish"
          /\ UNCHANGED failedAt
       \/ /\ Rejects("createClient")
          /\ UNCHANGED clientCreated
    /\ UNCHANGED <<envVars, added, typings, last, packageJson, log, fsVars, entries, mapVars,
                   netVars, publishCalls, npmPublished>>

(* client.publish(directory, packageJson, dryRun) publishes the directory  *)
(* unless dryRun, when it only simulates; it may reject instead.           *)
NpmClientPublish(published, files, manifest, dryRun) ==
    IF dryRun THEN published
    ELSE Append(published, [packageJson |-> manifest, files |-> files])

(* publish not handing dry on to the client. *)
PublishCallNotDry == [directory |-> registryOutputPath, packageJson |-> packageJson, dryRun |-> FALSE]

PublishCall == [directory |-> registryOutputPath, packageJson |-> packageJson, dryRun |-> dry]

ClientPublish ==
    /\ pc = "publish"
    /\ publishCalls' = Append(publishCalls, PublishCall)
    /\ \/ /\ npmPublished' = NpmClientPublish(npmPublished, outputDir,
                                               PublishCall.packageJson, PublishCall.dryRun)
          /\ pc' = "writeLog"
          /\ UNCHANGED failedAt
       \/ /\ Rejects("publish")
          /\ UNCHANGED npmPublished
    /\ UNCHANGED <<envVars, added, typings, last, packageJson, log, fsVars, entries, mapVars,
                   netVars, clientCreated>>

WriteLog ==
    /\ pc = "writeLog"
    /\ \/ /\ logFiles' = Append(logFiles, log)
          /\ pc' = "done"
          /\ UNCHANGED failedAt
       \/ /\ Rejects("writeLog")
          /\ UNCHANGED logFiles
    /\ UNCHANGED <<envVars, added, typings, last, packageJson, log, outputDir, cleared, writes,
                   entries, mapVars, netVars, npmVars>>

Next ==
    \/ MainReadAdditions
    \/ ReadTypings
    \/ FetchLastPatchNumber
    \/ ClearOutputPath
    \/ WritePackageJson
    \/ GenerateRegistry
    \/ \E w \in Workers : AddEntryResolve(w)
    \/ \E w \in Workers : AddEntryReject(w)
    \/ GenerateRegistryReturn
    \/ WriteIndexJson
    \/ WriteReadme
    \/ NpmClientCreate
    \/ ClientPublish
    \/ WriteLog

Spec == Init /\ [][Next]_vars

(* ------------- the mapper on its own, with a transform of values ------- *)
(* nAtATime called directly with a transform that returns a value for the  *)
(* item, as a caller that uses the output collection would.                *)
Transform(item) == "use(" \o item.name \o ")"

MapperInit ==
    /\ NoPick
    /\ dry = FALSE
    /\ registry = [u \in Uris |-> ("dist-tags" :> << >>)]
    /\ outputDir = PreviousOutput
    /\ pc = "harness"
    /\ InitCommon

notMapVars == <<envVars, mainVars, fsVars, entries, netVars, npmVars>>

MapperCall ==
    /\ pc = "harness"
    /\ status = "idle"
    /\ \E in \in TypingsLists : NAtATime(n, in)
    /\ UNCHANGED notMapVars

TransformResolve(w) ==
    /\ WorkerContinue(w, Transform(inputs[windex[w]]))
    /\ UNCHANGED notMapVars

TransformReject(w) ==
    /\ WorkerReject(w)
    /\ UNCHANGED notMapVars

MapperReturn ==
    /\ MapperResolve
    /\ UNCHANGED notMapVars

MapperNext ==
    \/ MapperCall
    \/ \E w \in Workers : TransformResolve(w)
    \/ \E w \in Workers : TransformReject(w)
    \/ MapperReturn

MapperSpec == MapperInit /\ [][MapperNext]_vars

(* -------- the mapper with transform calls that may never complete ------ *)
TransformHang(w) ==
    /\ WorkerHang(w)
    /\ UNCHANGED notMapVars

LiveMapperNext ==
    \/ MapperNext
    \/ \E w \in Workers : TransformHang(w)

(* The event loop runs the continuation of every transform call that       *)
(* completes, and of the workers' completion: a call that is not hung      *)
(* resolves or rejects.                                                    *)
LiveMapperFairness ==
    /\ WF_vars(MapperReturn)
    /\ \A w \in 1..MaxTypings : WF_vars(w \in Workers /\ TransformResolve(w))

LiveMapperSpec == MapperInit /\ [][LiveMapperNext]_vars /\ LiveMapperFairness

(* ------------------------- pick called on its own ---------------------- *)
PickTags == {"latest", "ts2.8", "bogus"}
PickValues == {"1.0.0", "2.0.0"}
(* the JSON objects with up to MaxTags of the tags, in every key order *)
PickObjects ==
    {o \in SeqsUpTo(PickTags \X PickValues, MaxTags) : Cardinality(Keys(o)) = Len(o)}
PickCatalogs == SeqsUpTo(PickTags, MaxCatalog)

PickInit ==
    /\ pickObj \in PickObjects
    /\ pickKeys \in PickCatalogs
    /\ pickOut = << >>
    /\ dry = FALSE
    /\ registry = [u \in Uris |-> ("dist-tags" :> << >>)]
    /\ outputDir = PreviousOutput
    /\ pc = "pick"
    /\ InitCommon

PickCall ==
    /\ pc = "pick"
    /\ pickOut' = pick(pickObj, pickKeys)
    /\ pc' = "picked"
    /\ UNCHANGED <<dry, n, registry, pickObj, pickKeys, added, typings, last, packageJson, log,
                   failedAt, fsVars, entries, mapVars, netVars, npmVars>>

PickSpec == PickInit /\ [][PickCall]_vars

(* ============================== properties ============================= *)
Stored == {i \in DOMAIN results : results[i] # Hole}
RejectedWorkers == {w \in Workers : wstate[w] = "rejected"}
RECURSIVE SumTo(_, _)
SumTo(f, k) == IF k = 0 THEN 0 ELSE f[k] + SumTo(f, k - 1)
Started == SumTo(invoked, Len(invoked))
(* transform calls started and not yet completed (resolved or rejected) *)
Pending == Started - Cardinality(Stored) - Cardinality(RejectedWorkers)

(* C1: when the mapper resolves (every transform resolved), the output has *)
(* the input's length and output[i] is the transform's result for input[i],*)
(* for every limit and input size.  Checked under MapperSpec.              *)
C1_OutputInInputOrder ==
    status = "resolved" =>
        /\ Len(results) = Len(inputs)
        /\ \A i \in 1..Len(inputs) : results[i] = Transform(inputs[i])

C1_Witness ==
    /\ status = "resolved"
    /\ n < Len(inputs)
    /\ Len(inputs) = MaxTypings
    /\ inputs[1] # inputs[2]
    /\ results[1] # results[2]

(* C2: at most L transform calls are started and not yet completed, L the  *)
(* limit the mapper was called with (25 in generateRegistry).              *)
C2_AtMostLPending ==
    /\ Pending <= n
    /\ InFlight <= n
    /\ Len(fetches) - failedFetches - Cardinality(Stored) <= n

C2_Witness ==
    /\ Pending = n
    /\ n < Len(inputs)
    /\ nextIndex < Len(inputs)

(* C3: once a transform (a registry fetch) has rejected, the mapper is     *)
(* rejected and never resolved, and main has failed with it: no index is   *)
(* written and nothing is published.                                       *)
C3_RejectionPropagates ==
    failedFetches > 0 =>
        /\ status = "rejected"
        /\ pc = "rejected"
        /\ failedAt = "generateRegistry"
        /\ writes = <<"package.json">>
        /\ publishCalls = << >>

C3_Witness ==
    /\ failedFetches = 1
    /\ Cardinality(Stored) = Len(inputs) - 1
    /\ Len(inputs) = MaxTypings
    /\ \A w \in Workers : wstate[w] \in {"finished", "rejected"}

(* C4: no index is claimed by two workers or transformed twice, in any     *)
(* run, and when the mapper resolves every index was transformed once.     *)
C4_EachItemOnce ==
    /\ \A i \in DOMAIN invoked : invoked[i] <= 1
    /\ \A i \in DOMAIN invoked : invoked[i] = 1 <=> i <= nextIndex
    /\ \A v, w \in Workers : (v # w /\ windex[v] # 0) => windex[v] # windex[w]
    /\ Len(fetches) = Started
    /\ status = "resolved" =>
            /\ DOMAIN invoked = 1..Len(inputs)
            /\ \A i \in 1..Len(inputs) : invoked[i] = 1 /\ results[i] # Hole

C4_Witness ==
    /\ status = "resolved"
    /\ Len(inputs) = MaxTypings
    /\ n < Len(inputs)

Written(filename) == \E i \in 1..Len(writes) : writes[i] = filename
OutputFiles == <<"package.json", "index.json", "README.md">>
TypingNames == {typings[i].name : i \in 1..Len(typings)}
CatalogTags == {allVersionTags[i] : i \in 1..Len(allVersionTags)}
DistTagsOf(typing) == registry[npmRegistry \o typing.fullEscapedNpmName]["dist-tags"]

(* C5: after readAdditions returned an empty collection nothing is cleared,*)
(* written or fetched and the publish client is neither created nor        *)
(* invoked; only the two log lines are produced.                           *)
C5_NoAdditionsNoEffects ==
    (pc # "readAdditions" /\ failedAt # "readAdditions" /\ Len(added) = 0) =>
        /\ cleared = 0
        /\ writes = << >>
        /\ outputDir = PreviousOutput
        /\ status = "idle"
        /\ fetches = << >>
        /\ clientCreated = 0
        /\ publishCalls = << >>
        /\ npmPublished = << >>
        /\ log = <<"=== Publishing types-registry ===", "No new packages published">>

C5_Witness ==
    /\ pc = "done"
    /\ Len(added) = 0
    /\ logFiles = <<log>>

GenerationComplete ==
    /\ cleared = 1
    /\ writes = OutputFiles
    /\ status = "resolved"
    /\ failedFetches = 0
    /\ Len(fetches) = Len(typings)
    /\ DOMAIN outputDir = {"package.json", "index.json", "README.md"}
    /\ outputDir["package.json"].json = packageJson
    /\ outputDir["index.json"].json = [entries |-> entries]
    /\ outputDir["README.md"].json = readme

(* C6: the publish client is created and invoked only after generation     *)
(* completed (path cleared, the three files written in order with their    *)
(* contents, every fetch resolved); when a step before it failed, publish  *)
(* is never invoked, and whatever is published is a complete directory.    *)
C6_PublishOnlyAfterGeneration ==
    /\ (clientCreated > 0 \/ publishCalls # << >>) => GenerationComplete
    /\ failedAt \in {"readTypings", "fetchLastPatchNumber", "clearOutputPath", "package.json",
                     "generateRegistry", "index.json", "README.md"} =>
            clientCreated = 0 /\ publishCalls = << >> /\ npmPublished = << >>
    /\ \A k \in 1..Len(npmPublished) :
            DOMAIN npmPublished[k].files = {"package.json", "index.json", "README.md"}

C6_Witness ==
    /\ Len(publishCalls) = 1
    /\ Len(npmPublished) = 1
    /\ Len(typings) = MaxTypings

(* The indexes the typings and the registry allow: under every name the    *)
(* recognized tags of one of the typings of that name.                     *)
WithName(nm) == {i \in 1..Len(typings) : typings[i].name = nm}
GeneratedIndexes ==
    { [nm \in TypingNames |-> pick(DistTagsOf(typings[c[nm]]), allVersionTags)] :
        c \in {f \in [TypingNames -> 1..Len(typings)] : \A nm \in TypingNames : f[nm] \in WithName(nm)} }
GeneratedOutput ==
    { writeJson(writeJson(writeJson(EmptyDir,
            "package.json", generatePackageJson(last + 1)),
            "index.json", [entries |-> index]),
            "README.md", readme) : index \in GeneratedIndexes }

(* C7: with dry = true every publish call has dryRun = true and nothing is *)
(* really published, and the files generated are those a run with          *)
(* dry = false generates: they are determined by the typings, the registry *)
(* and the last patch number, never by dry.                                *)
C7_DryRunOnlySimulates ==
    /\ dry => /\ \A k \in 1..Len(publishCalls) : publishCalls[k].dryRun = TRUE
              /\ npmPublished = << >>
    /\ Written("README.md") => outputDir \in GeneratedOutput
    /\ publishCalls # << >> => Written("README.md")

C7_Witness ==
    /\ dry
    /\ pc = "done"
    /\ Len(publishCalls) = 1
    /\ Len(typings) > 0

(* versions holds exactly the recognized tags of tags, with their versions *)
IsFiltered(versions, tags) ==
    /\ Len(versions) = Cardinality(Keys(versions))
    /\ Keys(versions) = Keys(tags) \cap CatalogTags
    /\ \A k \in Keys(versions) : Get(versions, k) = Get(tags, k)

(* the typings whose name no other typing of the list has, or only typings *)
(* that are looked up under the same fullEscapedNpmName                    *)
LooksUpAlone(i) ==
    \A j \in WithName(typings[i].name) :
        typings[j].fullEscapedNpmName = typings[i].fullEscapedNpmName

IndexHoldsEveryTyping(index) ==
    /\ DOMAIN index = TypingNames
    /\ \A i \in 1..Len(typings) : IsFiltered(index[typings[i].name], DistTagsOf(typings[i]))

IndexIsFilteredDistTags(index) ==
    /\ DOMAIN index = TypingNames
    /\ \A nm \in TypingNames : \E i \in WithName(nm) : IsFiltered(index[nm], DistTagsOf(typings[i]))
    /\ \A i \in 1..Len(typings) :
            LooksUpAlone(i) => IsFiltered(index[typings[i].name], DistTagsOf(typings[i]))

(* C8 as claimed: the generated index has, for every typing of the list,   *)
(* an entry under the typing's name that holds exactly the recognized tags *)
(* of the dist-tags fetched for that typing's fullEscapedNpmName.          *)
C8_EveryTypingHasItsEntry ==
    /\ status = "resolved" => IndexHoldsEveryTyping(entries)
    /\ Written("index.json") => IndexHoldsEveryTyping(outputDir["index.json"].json.entries)

(* C8: the generated index has an entry under every name of the typings    *)
(* list and under no other key; the entry holds exactly the recognized     *)
(* tags, each with its version, of the dist-tags fetched for the           *)
(* fullEscapedNpmName of a typing of that name: of the typing itself when  *)
(* every typing of its name is looked up under its fullEscapedNpmName.     *)
C8_IndexIsFilteredDistTags ==
    /\ status = "resolved" => IndexIsFilteredDistTags(entries)
    /\ Written("index.json") => IndexIsFilteredDistTags(outputDir["index.json"].json.entries)

C8_Witness ==
    /\ Written("index.json")
    /\ TypingNames = Names
    /\ \E i, j \in 1..Len(typings) : i # j /\ typings[i].name = typings[j].name /\ ~LooksUpAlone(i)
    /\ \E i \in 1..Len(typings) :
            /\ LooksUpAlone(i)
            /\ Keys(DistTagsOf(typings[i])) \ CatalogTags # {}
            /\ Keys(DistTagsOf(typings[i])) \cap CatalogTags # {}

(* C9: the manifest's version is 0.1.<last + 1> for the last patch number  *)
(* fetched in the run, and that manifest is what package.json holds and    *)
(* what the publish client is given.                                       *)
C9_VersionIsNextPatch ==
    /\ last >= 0 => packageJson.version = "0.1." \o ToString(last + 1)
    /\ last = 0 => packageJson.version = "0.1.1"
    /\ Written("package.json") => outputDir["package.json"].json = packageJson
    /\ \A k \in 1..Len(publishCalls) :
            /\ publishCalls[k].packageJson = packageJson
            /\ publishCalls[k].packageJson = outputDir["package.json"].json

C9_Witness ==
    /\ Len(publishCalls) = 1
    /\ last = MaxPatch

(* C10: called with an empty collection the mapper invokes no transform,   *)
(* renders no progress and has an empty output; generateRegistry then      *)
(* fetches nothing and its index is {entries: {}}.                         *)
C10_EmptyInput ==
    /\ (status # "idle" /\ Len(inputs) = 0) =>
            /\ status \in {"running", "resolved"}
            /\ results = << >>
            /\ Started = 0
            /\ progress = 0
            /\ fetches = << >>
            /\ failedFetches = 0
            /\ entries = EmptyEntries
    /\ (Written("index.json") /\ Len(typings) = 0) =>
            outputDir["index.json"].json = [entries |-> EmptyEntries]

C10_Witness ==
    /\ Written("index.json")
    /\ Len(typings) = 0
    /\ status = "resolved"

(* C11: publish-registry.md is written exactly when main reaches and       *)
(* completes its logging step: once, with the lines logged, in the run     *)
(* without additions and in the run where generation and publish           *)
(* succeeded, and never in a run where an earlier call rejected.           *)
C11_LogWrittenAtTheEndOnly ==
    /\ Len(logFiles) <= 1
    /\ logFiles # << >> <=> pc = "done"
    /\ pc \in {"writeLog", "done"} =>
            /\ failedAt = "none"
            /\ \/ Len(added) = 0
               \/ GenerationComplete /\ Len(publishCalls) = 1
    /\ pc = "done" => logFiles = <<log>>
    /\ failedAt # "none" => logFiles = << >>

C11_Witness ==
    /\ pc = "done"
    /\ Len(added) # 0
    /\ logFiles = <<log>>
    /\ Len(log) = 2

HungWorkers == {w \in Workers : wstate[w] = "hung"}
AllWorkersFinished == \A w \in Workers : wstate[w] = "finished"
(* every item is claimed, and transformed unless its own call is hung *)
AllOthersTransformed ==
    /\ nextIndex = Len(inputs)
    /\ \A i \in 1..Len(inputs) : results[i] # Hole \/ \E w \in HungWorkers : windex[w] = i

(* C12: when no transform call rejects or hangs, a running mapper          *)
(* eventually resolves; and it is resolved only when every launched worker *)
(* has finished, every item transformed and its result stored.             *)
C12_CompletesAfterAllWorkers ==
    /\ [](status = "resolved" =>
            AllWorkersFinished /\ nextIndex = Len(inputs) /\ Stored = 1..Len(inputs))
    /\ [](RejectedWorkers = {} /\ HungWorkers = {}) => (status = "running" ~> status = "resolved")

C12_Witness ==
    /\ status = "resolved"
    /\ AllWorkersFinished
    /\ Cardinality(Workers) = MaxLimit
    /\ Len(inputs) = MaxTypings

(* C13: a hung transform call stalls its own worker only.  While fewer     *)
(* workers are hung than were launched and no call rejects, every item is  *)
(* eventually claimed, and transformed unless its own call hangs; the      *)
(* cursor stands still once all workers are hung; with a hung call the     *)
(* mapper is never resolved.                                               *)
C13_HungCallStallsOneWorker ==
    /\ [](/\ RejectedWorkers = {}
          /\ status # "idle" => Cardinality(HungWorkers) < Cardinality(Workers))
        => (status = "running" ~> AllOthersTransformed)
    /\ [][(Workers # {} /\ HungWorkers = Workers) => nextIndex' = nextIndex]_vars
    /\ [](RejectedWorkers = {})
        => (<>[](status = "running" /\ nextIndex < Len(inputs)) => <>[](HungWorkers = Workers))
    /\ [](HungWorkers # {} => status # "resolved")

C13_Witness ==
    /\ \E w \in HungWorkers : windex[w] = 1
    /\ Cardinality(HungWorkers) < Cardinality(Workers)
    /\ Len(inputs) = MaxTypings
    /\ AllOthersTransformed
    /\ status = "running"

(* C14: the output path is cleared before any file is written; the files   *)
(* are written in the order package.json, index.json, README.md;           *)
(* index.json is written only after every fetch resolved; after a failed   *)
(* fetch the directory is cleared and holds package.json alone.            *)
C14_ClearThenWriteInOrder ==
    /\ Len(writes) <= Len(OutputFiles)
    /\ writes = SubSeq(OutputFiles, 1, Len(writes))
    /\ cleared <= 1
    /\ cleared = 0 => writes = << >> /\ outputDir = PreviousOutput
    /\ cleared = 1 => DOMAIN outputDir = {writes[i] : i \in 1..Len(writes)}
    /\ Written("index.json") =>
            /\ status = "resolved"
            /\ failedFetches = 0
            /\ Len(fetches) = Len(typings)
            /\ Stored = 1..Len(typings)
    /\ failedFetches > 0 =>
            /\ cleared = 1
            /\ DOMAIN outputDir = {"package.json"}
            /\ outputDir["package.json"].json = packageJson

C14_Witness ==
    /\ failedFetches > 0
    /\ DOMAIN outputDir = {"package.json"}
    /\ pc = "rejected"
    /\ Cardinality(Stored) > 0

(* C17: readTypings and fetchLastPatchNumber complete before the output    *)
(* path is cleared: while they run, and after either rejected, the         *)
(* previous output is unchanged, nothing is written or fetched and publish *)
(* is not invoked.                                                         *)
C17_ReadsBeforeClearing ==
    /\ (pc \in {"readTypings", "fetchLastPatchNumber"}
            \/ failedAt \in {"readTypings", "fetchLastPatchNumber"}) =>
            /\ outputDir = PreviousOutput
            /\ cleared = 0
            /\ writes = << >>
            /\ status = "idle"
            /\ fetches = << >>
            /\ clientCreated = 0
            /\ publishCalls = << >>
            /\ npmPublished = << >>
    /\ cleared > 0 =>
            /\ Len(added) # 0
            /\ last >= 0
            /\ packageJson = generatePackageJson(last + 1)

C17_Witness ==
    /\ failedAt = "fetchLastPatchNumber"
    /\ Len(typings) = MaxTypings
    /\ outputDir = PreviousOutput

(* The construction that iterates the catalog and looks each tag up in the *)
(* object.                                                                 *)
RECURSIVE pickByCatalogFrom(_, _, _, _)
pickByCatalogFrom(obj, keys, i, out) ==
    IF i > Len(keys) THEN out
    ELSE pickByCatalogFrom(obj, keys, i + 1,
            IF keys[i] \in Keys(obj) THEN SetKey(out, keys[i], Get(obj, keys[i])) ELSE out)
pickByCatalog(obj, keys) == pickByCatalogFrom(obj, keys, 1, << >>)
ToMap(obj) == [k \in Keys(obj) |-> Get(obj, k)]
KeySet(keys) == {keys[i] : i \in 1..Len(keys)}

(* C15: for every object and catalog, pick returns the mapping the         *)
(* construction over the catalog returns: exactly the pairs (k, obj[k])    *)
(* with k in the catalog and in the object.                                *)
C15_PickIsCatalogLookup ==
    pc = "picked" =>
        /\ Len(pickOut) = Cardinality(Keys(pickOut))
        /\ ToMap(pickOut) = ToMap(pickByCatalog(pickObj, pickKeys))
        /\ Keys(pickOut) = Keys(pickObj) \cap KeySet(pickKeys)
        /\ \A k \in Keys(pickOut) : Get(pickOut, k) = Get(pickObj, k)

C15_Witness ==
    /\ pc = "picked"
    /\ Len(pickOut) = MaxCatalog
    /\ Len(pickObj) = MaxTags
    /\ pickOut # pickByCatalog(pickObj, pickKeys)

(* entries as the typings processed one after the other, in the order of   *)
(* the list, leave it                                                      *)
RECURSIVE SequentialEntriesUpTo(_)
SequentialEntriesUpTo(k) ==
    IF k = 0 THEN EmptyEntries
    ELSE LET e == SequentialEntriesUpTo(k - 1)
             versions == pick(DistTagsOf(typings[k]), allVersionTags)
         IN  [nm \in DOMAIN e \cup {typings[k].name} |->
                 IF nm = typings[k].name THEN versions ELSE e[nm]]
SequentialEntries == SequentialEntriesUpTo(Len(typings))

(* typings of the same name have the same recognized tags fetched *)
SameNameSameVersions ==
    \A i, j \in 1..Len(typings) :
        typings[i].name = typings[j].name =>
            pick(DistTagsOf(typings[i]), allVersionTags) = pick(DistTagsOf(typings[j]), allVersionTags)

(* the indices whose fetch completes in the step *)
CompletedInStep == {i \in 1..Len(results) : results[i] = Hole /\ results'[i] # Hole}

(* C16 as claimed: for every typings list and registry, whatever the order *)
(* in which the fetches completed, generateRegistry ends with the entries  *)
(* the in-order run ends with.                                             *)
C16_EntriesIndependentOfOrder ==
    status = "resolved" => entries = SequentialEntries

(* C16: each completed fetch overwrites the entry under its typing's name, *)
(* so an entry is that of the typing of that name whose fetch completed    *)
(* last; when the typings of a same name have the same recognized tags     *)
(* fetched (in particular when no name is shared) every interleaving ends  *)
(* with the same entries, those of the in-order run.                       *)
C16_EntriesOfLastCompleted ==
    /\ [][\A i \in CompletedInStep :
            entries' = [nm \in DOMAIN entries \cup {typings[i].name} |->
                            IF nm = typings[i].name
                            THEN pick(DistTagsOf(typings[i]), allVersionTags)
                            ELSE entries[nm]]]_vars
    /\ []((status = "resolved" /\ SameNameSameVersions) => entries = SequentialEntries)

C16_Witness ==
    /\ status = "resolved"
    /\ n > 1
    /\ Len(typings) = MaxTypings
    /\ TypingNames = Names
    /\ SameNameSameVersions
    /\ \E i, j \in 1..Len(typings) :
            /\ i # j
            /\ typings[i].name = typings[j].name
            /\ typings[i].fullEscapedNpmName # typings[j].fullEscapedNpmName

====
